---- MODULE Spec2Model ----
(***************************************************************************)
(* Model of the rally stage simulation engine of game.py:                  *)
(* SimulationEngine.calculate_time / run / predict_optimal_time and        *)
(* format_time, driven the way the Streamlit script drives them.           *)
(*                                                                         *)
(* Numbers.  Python floats are IEEE-754 doubles.  Every double the risk    *)
(* chain and format_time handle lies within a few units in the last place  *)
(* of a short decimal, so a double is modelled EXACTLY as a pair           *)
(*     [d |-> D, e |-> E]   meaning   D/scale + E/(scale * 2^ErrBits)      *)
(* with D the decimal part (an integer number of 1/scale) and E the        *)
(* accumulated representation/rounding error.  Rounding to the 53-bit      *)
(* grid (round-half-even) is computed on that pair with modular            *)
(* arithmetic, so sums such as 0.15 + 0.65 + 0.05 come out as the          *)
(* interpreter computes them (0.8500000000000001, not 0.85).               *)
(* The time chain (base_time, penalty, final_time) is computed in exact    *)
(* rational arithmetic and rounded to hundredths where the code rounds.    *)
(***************************************************************************)
EXTENDS Integers, Sequences, FiniteSets, TLC

(***************************************************************************)
(* IEEE-754 double arithmetic on (decimal, error) pairs                    *)
(***************************************************************************)

\* a double has 52 explicit mantissa bits: in [2^x, 2^(x+1)) the grid is 2^(x-52)
MantissaBits == 52

\* the error part E counts units of 2^-ErrBits / scale
ErrBits == 57

\* largest binary exponent of a value the model handles (times below 8192 s)
MaxExp == 12

\* the two decimal scales: 1/10000 = 1/(625 * 2^4) for risk, 1/100 = 1/(25 * 2^2) for seconds
RiskScale == [unit |-> 10000, odd |-> 625, t |-> 4]

TimeScale == [unit |-> 100, odd |-> 25, t |-> 2]

Pow2(k) == 2 ^ k

\* 2^k modulo m, without forming 2^k
RECURSIVE Pow2Mod(_, _)
Pow2Mod(k, m) == IF k <= 20 THEN (2 ^ k) % m ELSE (1024 * Pow2Mod(k - 10, m)) % m

FZero == [d |-> 0, e |-> 0]

FNeg(x) == [d |-> 0 - x.d, e |-> 0 - x.e]

FIsZero(x) == x.d = 0 /\ x.e = 0

\* sign of the value: the error part is far smaller than one decimal unit
FSign(x) == IF x.d > 0 THEN 1 ELSE IF x.d < 0 THEN 0 - 1
            ELSE IF x.e > 0 THEN 1 ELSE IF x.e < 0 THEN 0 - 1 ELSE 0

\* x > y, x >= y on exact values
FGreater(x, y) == x.d > y.d \/ (x.d = y.d /\ x.e > y.e)

\* value >= 2^k, for a positive value
GePow2(x, S, k) ==
    IF k >= 0
    THEN x.d > S.unit * Pow2(k) \/ (x.d = S.unit * Pow2(k) /\ x.e >= 0)
    ELSE x.d * Pow2(0 - k) > S.unit \/ (x.d * Pow2(0 - k) = S.unit /\ x.e >= 0)

\* the largest k <= from with 2^k <= value
RECURSIVE FExpFrom(_, _, _)
FExpFrom(x, S, from) == IF GePow2(x, S, from) THEN from ELSE FExpFrom(x, S, from - 1)

\* binary exponent of a positive value: 2^FExp <= value < 2^(FExp+1)
FExp(x, S) == IF GePow2(x, S, 0) THEN FExpFrom(x, S, MaxExp) ELSE FExpFrom(x, S, 0 - 1)

\* one step of the grid 2^-g, in error units
GridStep(S, g) == S.odd * Pow2(ErrBits - g + S.t)

\* the exact value modulo two grid steps (step W), in error units
Residue2(x, S, g, W) ==
    (Pow2(ErrBits - g + S.t)
        * (((x.d % (2 * S.odd)) * Pow2Mod(g - S.t, 2 * S.odd)) % (2 * S.odd))
     + x.e) % (2 * W)

\* round to the nearest grid point, ties to the even mantissa; N2 < W says
\* that the grid point below has an even mantissa
RoundToGrid(x, W, N2) ==
    LET rho == N2 % W                             \* distance above the grid point below
    IN  IF 2 * rho < W \/ (2 * rho = W /\ N2 < W)
        THEN [d |-> x.d, e |-> x.e - rho]
        ELSE [d |-> x.d, e |-> x.e + (W - rho)]

FRoundStep(x, S, g, W) == RoundToGrid(x, W, Residue2(x, S, g, W))

\* round a positive exact value to the grid 2^-g
FRoundAt(x, S, g) == FRoundStep(x, S, g, GridStep(S, g))

\* round a positive exact value to the nearest double: in [2^k, 2^(k+1))
\* the grid is 2^(k - MantissaBits)
FRoundPos(x, S) == FRoundAt(x, S, MantissaBits - FExp(x, S))

FAbs(x) == IF FSign(x) >= 0 THEN x ELSE FNeg(x)

WithSign(sign, y) == IF sign >= 0 THEN y ELSE FNeg(y)

\* round an exact value to the nearest double (round-half-even is symmetric in sign)
FRound(x, S) ==
    IF FIsZero(x) THEN FZero ELSE WithSign(FSign(x), FRoundPos(FAbs(x), S))

\* the double a decimal literal (or a decimal produced by round(_, 2)) denotes
FromDec(D, S) == FRound([d |-> D, e |-> 0], S)

\* float addition and subtraction: exact result, then rounded
FAdd(x, y, S) == FRound([d |-> x.d + y.d, e |-> x.e + y.e], S)

FSub(x, y, S) == FRound([d |-> x.d - y.d, e |-> x.e - y.e], S)

\* int(x): truncation toward zero, in whole units
FTrunc(x, S) ==
    IF FSign(x) >= 0
    THEN IF x.d % S.unit = 0 /\ x.e < 0 THEN (x.d \div S.unit) - 1 ELSE x.d \div S.unit
    ELSE 0 - (IF (0 - x.d) % S.unit = 0 /\ x.e > 0
              THEN ((0 - x.d) \div S.unit) - 1 ELSE (0 - x.d) \div S.unit)

(***************************************************************************)
(* format_time                                                             *)
(***************************************************************************)

Digit(n) == CASE n = 0 -> "0" [] n = 1 -> "1" [] n = 2 -> "2" [] n = 3 -> "3"
              [] n = 4 -> "4" [] n = 5 -> "5" [] n = 6 -> "6" [] n = 7 -> "7"
              [] n = 8 -> "8" [] n = 9 -> "9"

\* decimal digits of a natural number, most significant first
RECURSIVE Digits(_)
Digits(n) == IF n < 10 THEN <<Digit(n)>> ELSE Digits(n \div 10) \o <<Digit(n % 10)>>

\* the format specification ":02d": sign, then digits, zero-padded to width 2
Pad2(n) == IF n < 0 THEN <<"-">> \o Digits(0 - n)
           ELSE IF n < 10 THEN <<"0", Digit(n)>>
           ELSE Digits(n)

\* seconds // 60 as an integer
FloorDiv60(seconds) ==
    IF seconds.d % 6000 = 0 /\ seconds.e < 0
    THEN (seconds.d \div 6000) - 1 ELSE seconds.d \div 6000

\* seconds % 60: the remainder is exact for seconds >= 0; for seconds < 0 the
\* interpreter adds 60.0 to the (exact) negative fmod, which rounds
Mod60(seconds) ==
    FRound([d |-> seconds.d - 6000 * FloorDiv60(seconds), e |-> seconds.e], TimeScale)

\* format_time(seconds), seconds a double; the result is the string as a
\* sequence of characters
format_time(seconds) ==
    LET minutes == FloorDiv60(seconds)
        remaining_seconds == Mod60(seconds)
        secs == FTrunc(remaining_seconds, TimeScale)
        frac == FSub(remaining_seconds, [d |-> 100 * secs, e |-> 0], TimeScale)
        scaled == FRound([d |-> 100 * frac.d, e |-> 100 * frac.e], TimeScale)
        hundredths == FTrunc(scaled, TimeScale)
    IN  Pad2(minutes) \o <<":">> \o Pad2(secs) \o <<":">> \o Pad2(hundredths)

\* format_time applied to the double that a number of hundredths denotes
FormatHundredths(n) == format_time(FromDec(n, TimeScale))

(***************************************************************************)
(* Inputs.  roughness, speed and reliability are held in hundredths        *)
(* (60 is 0.6); lengthKm is a fraction [n, d] of a kilometre; power and    *)
(* weight are integers.                                                    *)
(***************************************************************************)

Surfaces == {"gravel", "asphalt", "snow"}

Drivetrains == {"FWD", "RWD", "AWD"}

Suspensions == {"soft", "medium", "stiff"}

RideHeights == {"low", "medium", "high"}

Gearings == {"short", "medium", "long"}

\* an absent value (Python's None) is the empty tuple, a present one a 1-tuple
None == << >>

Some(x) == <<x>>

Val(o) == o[1]

\* decimal literals of the risk chain as doubles
Dbl(D) == FromDec(D, RiskScale)

F_0_02 == Dbl(200)

F_0_05 == Dbl(500)

F_0_1 == Dbl(1000)

F_0_15 == Dbl(1500)

F_0_2 == Dbl(2000)

F_0_25 == Dbl(2500)

F_0_85 == Dbl(8500)

F_1_0 == Dbl(10000)

(***************************************************************************)
(* Car.control_risk and Stage.surface_penalty                              *)
(***************************************************************************)

\* FWDCar / RWDCar / AWDCar.control_risk(stage_type)
control_risk(car, stage_type) ==
    CASE car.drivetrain = "FWD" -> IF stage_type \in {"gravel", "snow"} THEN F_0_1 ELSE FZero
      [] car.drivetrain = "RWD" -> IF stage_type \in {"gravel", "snow"} THEN F_0_15 ELSE FZero
      [] car.drivetrain = "AWD" -> FZero

\* GravelStage / AsphaltStage / SnowStage.surface_penalty(car)
surface_penalty(stage, car) == control_risk(car, stage.surface)

(***************************************************************************)
(* SimulationEngine.calculate_time, rule by rule                           *)
(***************************************************************************)

\* sign of ptw_bonus + 0.03 and of ptw_bonus - 0.03, where
\* ptw_bonus = -(power/weight - 0.22) * speed * 0.6:
\*   ptw_bonus < -0.03  <=>  (50*power - 11*weight) * speed100 >  250*weight
\*   ptw_bonus >  0.03  <=>  (50*power - 11*weight) * speed100 < -250*weight
PtwAdvantage(stage, car) == (50 * car.power - 11 * car.weight) * stage.speed > 250 * car.weight

PtwLacking(stage, car) == (50 * car.power - 11 * car.weight) * stage.speed < 0 - 250 * car.weight

\* power_to_weight > 0.30 and power_to_weight > 0.25
VeryPowerful(car) == 10 * car.power > 3 * car.weight

HighPower(car) == 4 * car.power > car.weight

\* variant with the comparison turned around
RoughInverted(stage) == stage.roughness <= 60

Rough(stage) == stage.roughness > 60

\* the suspension rule fires (either arm adds 0.2 to setup_risk)
StiffOnRough(stage, setup) == Rough(stage) /\ setup.suspension = "stiff"

\* variant that tests the soft suspension outside the roughness > 0.6 branch
SoftOnFast(stage, setup) == setup.suspension = "soft" /\ stage.speed > 70

SoftOnFastRough(stage, setup) ==
    Rough(stage) /\ setup.suspension = "soft" /\ stage.speed > 70

LowOnRough(stage, setup) == Rough(stage) /\ setup.ride_height = "low"

MediumOnRough(stage, setup) == Rough(stage) /\ setup.ride_height = "medium"

WrongTire(stage, setup) == setup.tire_type # stage.surface

ShortOnFast(stage, setup) == stage.speed > 70 /\ setup.gearing = "short"

LongOnSlow(stage, setup) == ~ShortOnFast(stage, setup) /\ stage.speed < 50 /\ setup.gearing = "long"

\* variant with 0.1 instead of 0.15 for the wrong tire
SetupPenaltyTire10(stage, setup) ==
      (IF StiffOnRough(stage, setup) THEN 15
       ELSE IF SoftOnFastRough(stage, setup) THEN 10 ELSE 0)
    + (IF LowOnRough(stage, setup) THEN 20
       ELSE IF MediumOnRough(stage, setup) THEN 5 ELSE 0)
    + (IF WrongTire(stage, setup) THEN 10 ELSE 0)
    + (IF ShortOnFast(stage, setup) THEN 8
       ELSE IF LongOnSlow(stage, setup) THEN 8 ELSE 0)

\* the penalty added by the setup rules, in hundredths (all addends are
\* multiples of 0.01)
SetupPenalty(stage, setup) ==
      (IF StiffOnRough(stage, setup) THEN 15
       ELSE IF SoftOnFastRough(stage, setup) THEN 10 ELSE 0)
    + (IF LowOnRough(stage, setup) THEN 20
       ELSE IF MediumOnRough(stage, setup) THEN 5 ELSE 0)
    + (IF WrongTire(stage, setup) THEN 15 ELSE 0)
    + (IF ShortOnFast(stage, setup) THEN 8
       ELSE IF LongOnSlow(stage, setup) THEN 8 ELSE 0)

\* setup_risk, accumulated in the order of the code, each += a float addition
SetupRisk(stage, setup) ==
    LET r0 == FZero
        r1 == IF StiffOnRough(stage, setup) THEN FAdd(r0, F_0_2, RiskScale)
              ELSE IF SoftOnFastRough(stage, setup) THEN FAdd(r0, F_0_2, RiskScale)
              ELSE r0
        r2 == IF LowOnRough(stage, setup) THEN FAdd(r1, F_0_25, RiskScale)
              ELSE IF MediumOnRough(stage, setup) THEN FAdd(r1, F_0_02, RiskScale)
              ELSE r1
        r3 == IF WrongTire(stage, setup) THEN FAdd(r2, F_0_2, RiskScale) ELSE r2
    IN  r3

\* multiplication by 0.25 is exact in binary floating point
TimesQuarter(x) == [d |-> x.d \div 4, e |-> x.e \div 4]

\* (1 - car.reliability) * 0.25, for each reliability in hundredths
ReliabilityRisk ==
    [reliability \in 0..100 |-> TimesQuarter(FSub(F_1_0, Dbl(100 * reliability), RiskScale))]

\* (1 - car.reliability) * 0.25 + stage.surface_penalty(car) + setup_risk
SummedRisk(stage, car, setup) ==
    LET ab == FAdd(ReliabilityRisk[car.reliability], surface_penalty(stage, car), RiskScale)
    IN  FAdd(ab, SetupRisk(stage, setup), RiskScale)

\* risk = min(risk, 1.0)
ClampRisk(risk) == IF FGreater(risk, F_1_0) THEN F_1_0 ELSE risk

\* the power terms, added after the clamp
PowerRisk(stage, car, risk) ==
    LET r1 == IF VeryPowerful(car) THEN FAdd(risk, F_0_1, RiskScale) ELSE risk
        r2 == IF Rough(stage) /\ HighPower(car) THEN FAdd(r1, F_0_05, RiskScale) ELSE r1
    IN  r2

\* the value of the variable risk when it is compared with 0.85
AggregatedRisk(stage, car, setup) ==
    PowerRisk(stage, car, ClampRisk(SummedRisk(stage, car, setup)))

\* variant with >= instead of >
IsDNFInclusive(risk) == FGreater(risk, F_0_85) \/ risk = F_0_85

\* risk > 0.85
IsDNF(risk) == FGreater(risk, F_0_85)

\* round(x, 2) of a double, in hundredths: correctly rounded, ties (only
\* possible when the double is exactly the midpoint) to even
PyRound2(x) ==
    LET q == x.d \div 100
        r == x.d % 100
        up == r > 50 \/ (r = 50 /\ x.e > 0) \/ (r = 50 /\ x.e = 0 /\ q % 2 = 1)
    IN  IF up THEN q + 1 ELSE q

NotePtwAdvantage == "Power-to-weight advantage"

NotePtwLacking == "Car lacks power for this stage"

NoteStiff == "Suspension too stiff for rough terrain"

NoteSoft == "Suspension too soft for high-speed rough stage"

NoteLow == "Ride height too low"

NoteTire == "Wrong tire choice"

NoteShort == "Short gearing slows down on high-speed stage"

NoteLong == "Long gearing hurts acceleration on tight/slow stage"

NotePowerful == "Car is very powerful and hard to control"

NoteHighPower == "High power on rough terrain increases risk"

NoteDNF == "Crash / DNF due to reliability or setup"

Opt(cond, note) == IF cond THEN <<note>> ELSE << >>

\* variant that appends the tire note after the power notes
NotesTireLast(stage, car, setup) ==
       (IF PtwAdvantage(stage, car) THEN <<NotePtwAdvantage>>
        ELSE IF PtwLacking(stage, car) THEN <<NotePtwLacking>> ELSE << >>)
    \o (IF StiffOnRough(stage, setup) THEN <<NoteStiff>>
        ELSE IF SoftOnFastRough(stage, setup) THEN <<NoteSoft>> ELSE << >>)
    \o Opt(LowOnRough(stage, setup), NoteLow)
    \o (IF ShortOnFast(stage, setup) THEN <<NoteShort>>
        ELSE IF LongOnSlow(stage, setup) THEN <<NoteLong>> ELSE << >>)
    \o Opt(VeryPowerful(car), NotePowerful)
    \o Opt(Rough(stage) /\ HighPower(car), NoteHighPower)
    \o Opt(WrongTire(stage, setup), NoteTire)

\* notes, appended in the order the rules run
Notes(stage, car, setup) ==
       (IF PtwAdvantage(stage, car) THEN <<NotePtwAdvantage>>
        ELSE IF PtwLacking(stage, car) THEN <<NotePtwLacking>> ELSE << >>)
    \o (IF StiffOnRough(stage, setup) THEN <<NoteStiff>>
        ELSE IF SoftOnFastRough(stage, setup) THEN <<NoteSoft>> ELSE << >>)
    \o Opt(LowOnRough(stage, setup), NoteLow)
    \o Opt(WrongTire(stage, setup), NoteTire)
    \o (IF ShortOnFast(stage, setup) THEN <<NoteShort>>
        ELSE IF LongOnSlow(stage, setup) THEN <<NoteLong>> ELSE << >>)
    \o Opt(VeryPowerful(car), NotePowerful)
    \o Opt(Rough(stage) /\ HighPower(car), NoteHighPower)

\* numerator of 1 + penalty over the denominator 25000 * weight:
\*   penalty = -(power/weight - 0.22) * speed * 0.6 + (setup penalties + jitter)
\* with the setup penalties and the jitter in hundredths
OnePlusPenaltyNum(stage, car, setup, jitter) ==
      25000 * car.weight
    + 250 * car.weight * (SetupPenalty(stage, setup) + jitter)
    - 3 * stage.speed * (50 * car.power - 11 * car.weight)

RECURSIVE Gcd(_, _)
Gcd(a, b) == IF b = 0 THEN a ELSE Gcd(b, a % b)

\* power / weight in lowest terms (the engine only uses the quotient)
Reduced(car) ==
    LET g == Gcd(car.power, car.weight)
    IN  [car EXCEPT !.power = car.power \div g, !.weight = car.weight \div g]

\* n * a / b rounded to the nearest integer; when n * a / b lies exactly
\* halfway between two integers the result is the upper one iff tie_up
RoundMulDiv(n, a, b, tie_up) ==
    LET q  == a \div b
        r  == a % b
        fl == n * q + ((n * r) \div b)
        rm == (n * r) % b
    IN  IF rm < b - rm THEN fl
        ELSE IF rm > b - rm THEN fl + 1
        ELSE IF tie_up THEN fl + 1 ELSE fl

\* n * a / b lies exactly halfway between two integers
RoundIsTie(n, a, b) ==
    LET rm == (n * (a % b)) % b
    IN  rm = b - rm

\* round(base_time * (1 + penalty), 2) in hundredths of a second, with
\* base_time = length_km * 60 / (0.6 + speed):
\*   100 * final_time = 24 * Ln * Num / (Ld * (60 + speed100) * weight)
\* The quotient is exact here.  The double final_time differs from it by a
\* few units in the last place, which changes round(final_time, 2) only
\* when the exact value is a tie; there the sign of the accumulated error
\* decides, and tie_up stands for it.
FinalTime(stage, car, setup, jitter, tie_up) ==
    LET c == Reduced(car)
    IN  RoundMulDiv(stage.length_km.n,
                    24 * OnePlusPenaltyNum(stage, c, setup, jitter),
                    stage.length_km.d * (60 + stage.speed) * c.weight,
                    tie_up)

\* the directions round(final_time, 2) can take: both at an exact tie, where
\* the error of the double decides, and the nearest hundredth otherwise
TieChoices(stage, car, setup, add_random, draw) ==
    LET c == Reduced(car)
        jitter == IF add_random THEN draw ELSE 0
    IN  IF RoundIsTie(stage.length_km.n,
                      24 * OnePlusPenaltyNum(stage, c, setup, jitter),
                      stage.length_km.d * (60 + stage.speed) * c.weight)
        THEN BOOLEAN ELSE {FALSE}

\* variant that adds the random draw to risk as well
calculate_time_jitter_on_risk(stage, car, setup, add_random, draw, tie_up) ==
    LET jitter == IF add_random THEN draw ELSE 0
        risk   == FAdd(AggregatedRisk(stage, car, setup), Dbl(100 * jitter), RiskScale)
        notes  == Notes(stage, car, setup)
    IN  IF IsDNF(risk)
        THEN [finished |-> FALSE, time_sec |-> None, risk |-> PyRound2(risk),
              notes |-> notes \o <<NoteDNF>>]
        ELSE [finished |-> TRUE, time_sec |-> Some(FinalTime(stage, car, setup, jitter, tie_up)),
              risk |-> PyRound2(risk), notes |-> notes]

\* calculate_time(stage, car, setup, add_random); draw is the value
\* random.uniform(0, 0.05) returns, in hundredths, used only if add_random
calculate_time(stage, car, setup, add_random, draw, tie_up) ==
    LET jitter == IF add_random THEN draw ELSE 0
        risk   == AggregatedRisk(stage, car, setup)
        notes  == Notes(stage, car, setup)
    IN  IF IsDNF(risk)
        THEN [finished |-> FALSE, time_sec |-> None, risk |-> PyRound2(risk),
              notes |-> notes \o <<NoteDNF>>]
        ELSE [finished |-> TRUE, time_sec |-> Some(FinalTime(stage, car, setup, jitter, tie_up)),
              risk |-> PyRound2(risk), notes |-> notes]

\* the reference setup and car of predict_optimal_time
optimal_setup(stage) ==
    [suspension |-> "medium", ride_height |-> "medium", gearing |-> "medium",
     tire_type |-> stage.surface]

optimal_car == [drivetrain |-> "AWD", power |-> 300, weight |-> 1300, reliability |-> 95]

\* variant with the test on result.finished turned around
predict_optimal_time_inverted(stage, tie_up) ==
    LET result == calculate_time(stage, optimal_car, optimal_setup(stage), FALSE, 0, tie_up)
    IN  IF result.finished THEN None ELSE result.time_sec

predict_optimal_time(stage, tie_up) ==
    LET result == calculate_time(stage, optimal_car, optimal_setup(stage), FALSE, 0, tie_up)
    IN  IF result.finished THEN result.time_sec ELSE None

(***************************************************************************)
(* The values the inputs are drawn from                                    *)
(***************************************************************************)

\* roughness on both sides of the 0.6 threshold (the engine only ever
\* compares roughness with 0.6)
Roughnesses == {60, 61}

\* speed at the ends of [0, 1] and at the 0.7 threshold
Speeds == {0, 70, 100}

\* a 10.5 km stage (Rally Finland)
Lengths == {[n |-> 21, d |-> 2]}

\* (power, weight): power-to-weight 0.10, 0.2308 (the reference car), 0.26
\* and 2.0
PowerWeights == {<<100, 1000>>, <<300, 1300>>, <<260, 1000>>, <<2000, 1000>>}

\* reliability 0, 0.4 (the risk sum can be exactly 0.85) and 0.98 (the risk sum
\* falls halfway between two hundredths)
Reliabilities == {0, 40, 98}

\* random.uniform(0, 0.05) lies in [0, 0.05): the draws, in hundredths
JitterLimit == 5

Draws == {d \in 0..(JitterLimit - 1) : d % 2 = 0}

Stages == [surface : Surfaces, length_km : Lengths, roughness : Roughnesses, speed : Speeds]

Cars == {[drivetrain |-> dt, power |-> pw[1], weight |-> pw[2], reliability |-> rel] :
            dt \in Drivetrains, pw \in PowerWeights, rel \in Reliabilities}

Setups == [suspension : Suspensions, ride_height : RideHeights, gearing : Gearings,
           tire_type : Surfaces]

\* the stages predict_optimal_time is applied to: lengths of 12.5 cm, 1 m,
\* 10.5 km and 12 km, roughness and speed across [0, 1]
PredictLengths == {[n |-> 1, d |-> 8000], [n |-> 1, d |-> 1000], [n |-> 21, d |-> 2],
                   [n |-> 12, d |-> 1]}

PredictRoughnesses == {0, 60, 61, 100}

PredictSpeeds == {10 * k : k \in 0..10} \cup {55, 65, 75}

PredictStages == [surface : Surfaces, length_km : PredictLengths,
                  roughness : PredictRoughnesses, speed : PredictSpeeds]

\* durations handed to format_time directly: 0.00 s .. MaxHundredths / 100 s
MaxHundredths == 12999

VARIABLES
    stage,               \* the Stage handed to the engine
    car,                 \* the Car
    setup,               \* the Setup
    pc,                  \* which call has returned
    predicted_time_sec,  \* return value of engine.predict_optimal_time(stage)
    result,              \* the SimulationResult of run / calculate_time, or None
    seconds,             \* argument of format_time, in hundredths
    text                 \* return value of format_time, or None

vars == <<stage, car, setup, pc, predicted_time_sec, result, seconds, text>>

(***************************************************************************)
(* The engine: a stage, a car and a setup are constructed, then the        *)
(* attempt is evaluated                                                    *)
(***************************************************************************)

Init ==
    /\ stage \in Stages
    /\ car \in Cars
    /\ setup \in Setups
    /\ pc = "selected"
    /\ predicted_time_sec = None
    /\ result = None
    /\ seconds = 0
    /\ text = None

\* result = engine.run(stage, car, setup), which is
\* calculate_time(stage, car, setup, add_random=True)
Run(draw) ==
    /\ pc = "selected"
    /\ \E tie_up \in TieChoices(stage, car, setup, TRUE, draw) :
            result' = calculate_time(stage, car, setup, TRUE, draw, tie_up)
    /\ pc' = "run"
    /\ UNCHANGED <<stage, car, setup, predicted_time_sec, seconds, text>>

\* result = engine.calculate_time(stage, car, setup, add_random=False)
CalculateTime ==
    /\ pc = "selected"
    /\ \E tie_up \in TieChoices(stage, car, setup, FALSE, 0) :
            result' = calculate_time(stage, car, setup, FALSE, 0, tie_up)
    /\ pc' = "calculated"
    /\ UNCHANGED <<stage, car, setup, predicted_time_sec, seconds, text>>

Next ==
    \/ \E draw \in Draws : Run(draw)
    \/ CalculateTime

Spec == Init /\ [][Next]_vars

(***************************************************************************)
(* predict_optimal_time on its own: it reads the stage only                *)
(***************************************************************************)

InitPredict ==
    /\ stage \in PredictStages
    /\ car = optimal_car
    /\ setup = optimal_setup(stage)
    /\ pc = "selected"
    /\ predicted_time_sec = None
    /\ result = None
    /\ seconds = 0
    /\ text = None

\* predicted_time_sec = engine.predict_optimal_time(stage)
PredictOptimalTime ==
    /\ pc = "selected"
    /\ \E tie_up \in TieChoices(stage, optimal_car, optimal_setup(stage), FALSE, 0) :
            predicted_time_sec' = predict_optimal_time(stage, tie_up)
    /\ pc' = "predicted"
    /\ UNCHANGED <<stage, car, setup, result, seconds, text>>

NextPredict == PredictOptimalTime

SpecPredict == InitPredict /\ [][NextPredict]_vars

(***************************************************************************)
(* format_time on its own                                                  *)
(***************************************************************************)

InitFormat ==
    /\ stage = [surface |-> "gravel", length_km |-> [n |-> 21, d |-> 2],
                roughness |-> 0, speed |-> 100]
    /\ car = optimal_car
    /\ setup = optimal_setup(stage)
    /\ pc = "format"
    /\ predicted_time_sec = None
    /\ result = None
    /\ seconds \in 0..MaxHundredths
    /\ text = None

FormatTime ==
    /\ pc = "format"
    /\ text' = FormatHundredths(seconds)
    /\ pc' = "formatted"
    /\ UNCHANGED <<stage, car, setup, predicted_time_sec, result, seconds>>

NextFormat == FormatTime

SpecFormat == InitFormat /\ [][NextFormat]_vars

(***************************************************************************)
(* Properties                                                              *)
(***************************************************************************)

Range(seq) == {seq[i] : i \in 1..Len(seq)}

\* a call of run or calculate_time has returned
Evaluated == pc \in {"run", "calculated"}

\* C1: the risk field of every SimulationResult is within [0, 1]
\* (in hundredths: 0..100), also when the power terms were added.
C1_RiskWithinUnitInterval == Evaluated => result.risk \in 0..100

\* C2: the outcome is decided by the aggregated, unrounded risk alone:
\* finished = False with time_sec None exactly when it is > 0.85, finished =
\* True with a numeric time_sec otherwise; exactly 0.85 finishes.
C2_OutcomeDecidedByRisk ==
    Evaluated =>
        LET risk == AggregatedRisk(stage, car, setup)
            above == risk.d > F_0_85.d \/ (risk.d = F_0_85.d /\ risk.e > F_0_85.e)
        IN  /\ result.finished \in BOOLEAN
            /\ above => (~result.finished /\ result.time_sec = None)
            /\ ~above => (result.finished /\ result.time_sec # None
                          /\ Val(result.time_sec) \in Int)
            /\ risk = F_0_85 => result.finished

\* C2 witness: an evaluation whose aggregated risk is the double 0.85 itself
C2_Witness ==
    Evaluated /\ AggregatedRisk(stage, car, setup) = F_0_85 /\ result.finished

\* the same input with another suspension, evaluated without randomness
WithSuspension(s, tie_up) ==
    calculate_time(stage, car, [setup EXCEPT !.suspension = s], FALSE, 0, tie_up)

NoteUnstable == "Suspension unstable at high speed"

SmoothFastSoft ==
    pc = "calculated" /\ stage.roughness <= 60 /\ stage.speed > 70
                      /\ setup.suspension = "soft"

\* C3 as stated: on a smooth stage (roughness <= 0.6) with speed > 0.7 a soft
\* suspension adds 0.1 to the penalty, nothing to risk, and the note
\* "suspension unstable at high speed", compared with a medium suspension.
C3_SoftUnstableOnSmooth ==
    SmoothFastSoft =>
        LET medium == [setup EXCEPT !.suspension = "medium"]
        IN  /\ SetupPenalty(stage, setup) = SetupPenalty(stage, medium) + 10
            /\ SetupRisk(stage, setup) = SetupRisk(stage, medium)
            /\ NoteUnstable \in Range(result.notes)

\* C3 amended: on a smooth stage with speed > 0.7 a soft suspension changes
\* nothing: penalty, risk, notes and the whole result equal those of a
\* medium suspension; a soft-suspension note only appears on a rough stage.
C3_SoftSameAsMediumOnSmooth ==
    /\ SmoothFastSoft =>
        LET medium == [setup EXCEPT !.suspension = "medium"]
        IN  /\ SetupPenalty(stage, setup) = SetupPenalty(stage, medium)
            /\ SetupRisk(stage, setup) = SetupRisk(stage, medium)
            /\ \E tie_up \in BOOLEAN : result = WithSuspension("medium", tie_up)
            /\ Range(result.notes) \cap {NoteSoft, NoteStiff, NoteUnstable} = {}
    /\ Evaluated => NoteUnstable \notin Range(result.notes)
    /\ (Evaluated /\ NoteSoft \in Range(result.notes)) =>
            (stage.roughness > 60 /\ stage.speed > 70 /\ setup.suspension = "soft")

C3_Witness == SmoothFastSoft /\ result.finished

\* the same input with another tire type, evaluated without randomness
WithTire(t) == calculate_time(stage, car, [setup EXCEPT !.tire_type = t], FALSE, 0, FALSE)

GravelOnAsphaltTires ==
    pc = "calculated" /\ stage.surface = "gravel" /\ setup.tire_type = "asphalt"

\* C4 as stated: on gravel with asphalt tires the note "Wrong tire choice" is
\* present (absent with gravel tires), the penalty is greater by exactly
\* 0.15 and the risk greater by exactly 0.2 than with gravel tires.
C4_TireMismatchExact ==
    GravelOnAsphaltTires =>
        LET matching == [setup EXCEPT !.tire_type = "gravel"]
            other == WithTire("gravel")
        IN  /\ NoteTire \in Range(result.notes)
            /\ NoteTire \notin Range(other.notes)
            /\ SetupPenalty(stage, setup) = SetupPenalty(stage, matching) + 15
            /\ result.risk = other.risk + 20

\* C4 amended: the note and the 0.15 of penalty are as stated and setup_risk
\* gains one addend 0.2; the reported risk is greater by 0.19 to 0.21 while
\* the summed risk stays <= 1.0 (float rounding), and by 0.15 to 0.20 when
\* the clamp to 1.0 cuts the sum.
C4_TireMismatchUpToClamp ==
    GravelOnAsphaltTires =>
        LET matching == [setup EXCEPT !.tire_type = "gravel"]
            other == WithTire("gravel")
            diff == result.risk - other.risk
        IN  /\ NoteTire \in Range(result.notes)
            /\ NoteTire \notin Range(other.notes)
            /\ SetupPenalty(stage, setup) = SetupPenalty(stage, matching) + 15
            /\ SetupRisk(stage, setup) = FAdd(SetupRisk(stage, matching), F_0_2, RiskScale)
            /\ IF FGreater(SummedRisk(stage, car, setup), F_1_0)
               THEN diff \in 15..20
               ELSE diff \in 19..21

C4_Witness ==
    GravelOnAsphaltTires /\ result.risk = WithTire("gravel").risk + 20

\* C5: the random draw changes the time only: finished, risk and notes of a
\* run equal those of the evaluation without randomness, for every draw.
C5_JitterOnlyAffectsTime ==
    pc = "run" =>
        LET fixed == calculate_time(stage, car, setup, FALSE, 0, FALSE)
        IN  /\ result.finished = fixed.finished
            /\ result.risk = fixed.risk
            /\ result.notes = fixed.notes

\* C5 witness: a run whose time differs from the time without randomness
C5_Witness ==
    /\ pc = "run"
    /\ result.finished
    /\ \A tie_up \in BOOLEAN :
          result.time_sec # calculate_time(stage, car, setup, FALSE, 0, tie_up).time_sec

Predicted == pc = "predicted"

ReferenceRisk == AggregatedRisk(stage, optimal_car, optimal_setup(stage))

\* C6 as stated: predict_optimal_time never returns None: the reference
\* evaluation has risk <= 0.85 and the returned time is strictly positive.
C6_PredictStrictlyPositive ==
    Predicted =>
        /\ ~FGreater(ReferenceRisk, F_0_85)
        /\ predicted_time_sec # None
        /\ Val(predicted_time_sec) > 0

\* C6 amended: predict_optimal_time never returns None (reference risk <=
\* 0.85) and never a negative time; the time is strictly positive for every
\* stage of at least 0.001 km, while on shorter stages round(_, 2) can
\* return 0.0.
C6_PredictNeverDNF ==
    Predicted =>
        /\ ~FGreater(ReferenceRisk, F_0_85)
        /\ predicted_time_sec # None
        /\ Val(predicted_time_sec) >= 0
        /\ 1000 * stage.length_km.n >= stage.length_km.d => Val(predicted_time_sec) > 0

C6_Witness == Predicted /\ predicted_time_sec # None /\ Val(predicted_time_sec) > 0

\* C7: every finished result carries a time_sec >= 0.
C7_FinishedTimeNonNegative ==
    (Evaluated /\ result.finished) => Val(result.time_sec) >= 0

\* the same input on a stage of another roughness, evaluated without randomness
WithRoughness(r) ==
    calculate_time([stage EXCEPT !.roughness = r], car, setup, FALSE, 0, FALSE)

StiffOnSmooth == pc = "calculated" /\ setup.suspension = "stiff" /\ stage.roughness <= 60

\* C8: with a stiff suspension the risk on a stage with roughness > 0.6 is
\* never below the risk of the same input with roughness <= 0.6.
C8_RoughnessMonotoneWhenStiff ==
    StiffOnSmooth =>
        \A r \in Roughnesses : r > 60 => WithRoughness(r).risk >= result.risk

C8_Witness ==
    StiffOnSmooth /\ \E r \in Roughnesses : r > 60 /\ WithRoughness(r).risk > result.risk

DigitValue(c) == CHOOSE n \in 0..9 : Digit(n) = c

IsDigit(c) == \E n \in 0..9 : Digit(n) = c

\* C9: format_time returns "mm:ss:hh", every field two digits, ss in 0..59,
\* with mm * 6000 + ss * 100 + hh equal to the duration in hundredths.
C9_FormatDecomposesExactly ==
    pc = "formatted" =>
        /\ Len(text) = 8
        /\ text[3] = ":" /\ text[6] = ":"
        /\ \A i \in {1, 2, 4, 5, 7, 8} : IsDigit(text[i])
        /\ LET mm == 10 * DigitValue(text[1]) + DigitValue(text[2])
               ss == 10 * DigitValue(text[4]) + DigitValue(text[5])
               hh == 10 * DigitValue(text[7]) + DigitValue(text[8])
           IN  ss \in 0..59 /\ hh \in 0..99 /\ mm * 6000 + ss * 100 + hh = seconds

\* position of a note in the order of the rules
Slot(note) ==
    CASE note \in {NotePtwAdvantage, NotePtwLacking} -> 1
      [] note \in {NoteStiff, NoteSoft} -> 2
      [] note = NoteLow -> 3
      [] note = NoteTire -> 4
      [] note \in {NoteShort, NoteLong} -> 5
      [] note = NotePowerful -> 6
      [] note = NoteHighPower -> 7
      [] note = NoteDNF -> 8
      [] OTHER -> 0

\* C10: the notes follow the order of the rules without repetition, at most
\* one note per rule, and the DNF note is present iff finished = False, in
\* which case it is the last note.
C10_NotesOrdered ==
    Evaluated =>
        LET notes == result.notes
        IN  /\ \A i \in 1..Len(notes) : Slot(notes[i]) \in 1..8
            /\ \A i, j \in 1..Len(notes) : i < j => Slot(notes[i]) < Slot(notes[j])
            /\ (NoteDNF \in Range(notes)) <=> ~result.finished
            /\ ~result.finished => notes[Len(notes)] = NoteDNF

C10_Witness == Evaluated /\ ~result.finished /\ Len(result.notes) >= 4

====
